---- MODULE Spec2Model ----
(***************************************************************************)
(* tap-postgres (tap_postgres/__init__.py): the extraction orchestrator    *)
(* do_sync with its per-stream dispatch, the discovery pass that builds    *)
(* tap_stream_ids, and the type mapper schema_for_column.                  *)
(*                                                                         *)
(* Three specifications share the variables:                               *)
(*   Spec           one do_sync run over a small catalog                   *)
(*   SpecRuns       do_sync, run after run, each on the last emitted state *)
(*   SpecDiscovery  do_discovery over a small cluster                      *)
(*   SpecMapper     schema_for_column over column descriptors              *)
(***************************************************************************)
EXTENDS Integers, Sequences, FiniteSets, TLC

VARIABLES
    catalog,                    \* catalog.streams: sequence of stream records
    default_replication_method, \* config value handed to do_sync
    input,                      \* the state document the current run was started with
    state,                      \* the state threaded through do_sync
    work,                       \* the iterator `streams` of the for loop
    pc,                         \* "idle" | "start" | "loop" | "done" | "aborted"
    trace,                      \* messages written, collaborator calls, warnings, in order
    last,                       \* what the latest loop iteration did and what it started from
    curLsn,                     \* the database's current change-stream position
    run,                        \* number of the current do_sync run
    booted,                     \* streams whose bootstrap completed in an earlier run
    cluster,                    \* discovery: set of <<database, schema, table>>
    all_dbs,                    \* discovery: databases still to visit
    all_streams,                \* discovery: catalog entries produced so far
    dpc,                        \* discovery: "idle" | "dbs" | "dumped"
    c,                          \* mapper: the column descriptor
    result,                     \* mapper: what schema_for_column produced
    mpc                         \* mapper: "idle" | "input" | "mapped"

vars == <<catalog, default_replication_method, input, state, work, pc, trace, last,
          curLsn, run, booted, cluster, all_dbs, all_streams, dpc, c, result, mpc>>

syncVars == <<catalog, default_replication_method, input, state, work, pc, trace, last,
              curLsn, run, booted>>
discVars == <<cluster, all_dbs, all_streams, dpc>>
mapVars  == <<c, result, mpc>>

-----------------------------------------------------------------------------
(* Bounds *)

MaxStreams == 3   \* streams in the catalog; tap_stream_ids are 1..MaxStreams by rank
MaxLsn     == 2   \* highest change-stream position the database reaches
MaxRuns    == 2   \* do_sync invocations in a row
MaxTables  == 2   \* tables in the discovered cluster

(* Python's None, and a key that is missing from a dict *)
Null   == -1
Absent == -2

StreamIds == 1..MaxStreams
StaleId   == MaxStreams + 1     \* an id that no stream of the catalog has

Max(a, b) == IF a >= b THEN a ELSE b

-----------------------------------------------------------------------------
(* singer state helpers *)

EmptyEntry == [lsn |-> Absent, xmin |-> Absent]

\* singer.get_bookmark: the value under the key, None when it is missing
get_bookmark(st, id, key) ==
    IF st.bookmarks[id][key] = Absent THEN Null ELSE st.bookmarks[id][key]

\* singer.write_bookmark
write_bookmark(st, id, key, val) == [st EXCEPT !.bookmarks[id][key] = val]

\* singer.set_currently_syncing
set_currently_syncing(st, id) == [st EXCEPT !.currently_syncing = id]

\* singer.get_currently_syncing
get_currently_syncing(st) == st.currently_syncing

\* truth value of a Python int-or-None
Truthy(v) == v # Null /\ v # Absent /\ v # 0

-----------------------------------------------------------------------------
(* Catalog *)

ColsNone ==
    [c1 |-> [inclusion |-> "unsupported", selected |-> TRUE],
     c2 |-> [inclusion |-> "available",   selected |-> FALSE]]

ColsSome ==
    [c1 |-> [inclusion |-> "automatic",   selected |-> FALSE],
     c2 |-> [inclusion |-> "available",   selected |-> TRUE],
     c3 |-> [inclusion |-> "unsupported", selected |-> FALSE]]

NoMethod == "absent"

Kind(sel, cols, method, view) ==
    [selected |-> sel, properties |-> cols, replication_method |-> method, is_view |-> view]

StreamKinds ==
    { Kind(FALSE, ColsSome, "FULL_TABLE",  FALSE),
      Kind(TRUE,  ColsNone, "INCREMENTAL", FALSE),
      Kind(TRUE,  ColsSome, "FULL_TABLE",  FALSE),
      Kind(TRUE,  ColsSome, "FULL_TABLE",  TRUE),
      Kind(TRUE,  ColsSome, "LOG_BASED",   FALSE),
      Kind(TRUE,  ColsSome, "LOG_BASED",   TRUE),
      Kind(TRUE,  ColsSome, "INCREMENTAL", FALSE),
      Kind(TRUE,  ColsSome, NoMethod,      FALSE) }

MkStream(id, k) ==
    [tap_stream_id |-> id, selected |-> k.selected, properties |-> k.properties,
     replication_method |-> k.replication_method, is_view |-> k.is_view]

\* catalog.streams arrives in no particular order: here by descending id
Descending == [i \in 1..MaxStreams |-> MaxStreams + 1 - i]

StreamOf(id) == CHOOSE i \in 1..Len(catalog) : catalog[i].tap_stream_id = id

\* is_selected_via_metadata
is_selected_via_metadata(stream) == stream.selected

\* should_sync_column
should_sync_column(md_map, field_name) ==
    IF md_map[field_name].inclusion = "unsupported" THEN FALSE
    ELSE IF md_map[field_name].selected THEN TRUE
    ELSE IF md_map[field_name].inclusion = "automatic" THEN TRUE
    ELSE FALSE

\* desired_columns of do_sync (a sorted list without repeats, kept as a set)
DesiredColumns(stream) ==
    {f \in DOMAIN stream.properties : should_sync_column(stream.properties, f)}

\* replication_method of do_sync
ReplicationMethod(stream) ==
    IF stream.replication_method # NoMethod
    THEN stream.replication_method
    ELSE default_replication_method

RECURSIVE Filter(_)
Filter(seq) ==
    IF seq = <<>> THEN <<>>
    ELSE IF is_selected_via_metadata(Head(seq))
         THEN <<Head(seq)>> \o Filter(Tail(seq))
         ELSE Filter(Tail(seq))

MinIndex(seq) ==
    CHOOSE i \in 1..Len(seq) :
        /\ \A j \in 1..Len(seq) : seq[i].tap_stream_id <= seq[j].tap_stream_id
        /\ \A j \in 1..(i - 1) : seq[j].tap_stream_id # seq[i].tap_stream_id

Remove(seq, i) == SubSeq(seq, 1, i - 1) \o SubSeq(seq, i + 1, Len(seq))

\* streams.sort(key=lambda s: s.tap_stream_id)
RECURSIVE SortById(_)
SortById(seq) ==
    IF seq = <<>> THEN <<>>
    ELSE <<seq[MinIndex(seq)]>> \o SortById(Remove(seq, MinIndex(seq)))

\* a dropwhile that forgets to drop
DropWhileNotKeepAll(marker, seq) == seq

\* dropwhile(lambda s: s.tap_stream_id != currently_syncing, streams)
RECURSIVE DropWhileNot(_, _)
DropWhileNot(marker, seq) ==
    IF seq = <<>> THEN <<>>
    ELSE IF Head(seq).tap_stream_id # marker
         THEN DropWhileNot(marker, Tail(seq))
         ELSE seq

-----------------------------------------------------------------------------
(* Trace events *)

NoState == [currently_syncing |-> Null, bookmarks |-> <<>>]

Ev(type, stream, fn, bp, lsn, value) ==
    [type |-> type, stream |-> stream, fn |-> fn, bookmark_properties |-> bp,
     lsn |-> lsn, value |-> value]

SchemaMsg(stream, bp) == Ev("SCHEMA", stream.tap_stream_id, "", bp, Null, NoState)
RecordMsg(stream)     == Ev("RECORD", stream.tap_stream_id, "", <<>>, Null, NoState)
StateMsg(st)          == Ev("STATE", Null, "", <<>>, Null, st)
Call(fn, stream)      == Ev("CALL", stream.tap_stream_id, fn, <<>>, Null, NoState)
FetchLsn(stream, pos) ==
    Ev("CALL", stream.tap_stream_id, "logical_replication.fetch_current_lsn", <<>>, pos, NoState)
Warning(stream)       == Ev("WARNING", stream.tap_stream_id, "", <<>>, Null, NoState)

NoLast == [branch |-> "none", stream |-> Null, before |-> NoState, tlen |-> 0,
           rest |-> <<>>, pos |-> Null, returned |-> NoState]

Last(branch, stream, returned) ==
    [branch |-> branch, stream |-> stream.tap_stream_id, before |-> state,
     tlen |-> Len(trace), rest |-> Tail(work), pos |-> curLsn, returned |-> returned]

-----------------------------------------------------------------------------
(* Strategy collaborators (tap_postgres.sync_strategies), by their interface *)

XminResults == {Null, 1}

\* full_table.sync_table / full_table.sync_view: the states it may return
FullTableReturns(st, id) == {write_bookmark(st, id, "xmin", x) : x \in XminResults}

\* logical_replication.sync_table: the state it returns once it has read up to pos
LogBasedReturns(st, id, pos) ==
    write_bookmark(st, id, "lsn", Max(get_bookmark(st, id, "lsn"), pos))

\* the change stream may move on while a log-based dispatch runs (the only place
\* where the position is read)
Advance(pos) == {p \in {pos, pos + 1} : p <= MaxLsn}

-----------------------------------------------------------------------------
(* do_sync *)

Stream  == Head(work)
Current == set_currently_syncing(state, Stream.tap_stream_id)

InLoop == pc = "loop" /\ work # <<>>

\* lines 347-353: filter, sort, resume from the marker
DoSyncStart ==
    /\ pc = "start"
    /\ LET streams == SortById(Filter(catalog))
           currently_syncing == get_currently_syncing(state)
       IN  work' = IF currently_syncing # Null
                   THEN DropWhileNot(currently_syncing, streams)
                   ELSE streams
    /\ pc' = "loop"
    /\ UNCHANGED <<catalog, default_replication_method, input, state, trace, last,
                   curLsn, run, booted>>
    /\ UNCHANGED <<discVars, mapVars>>

\* a skip that still writes the per-stream checkpoint
SkipNoColumnsCheckpoint ==
    /\ InLoop
    /\ DesiredColumns(Stream) = {}
    /\ state' = set_currently_syncing(Current, Null)
    /\ trace' = trace \o << Warning(Stream), StateMsg(set_currently_syncing(Current, Null)) >>
    /\ work' = Tail(work)
    /\ last' = Last("skip_no_columns", Stream, NoState)
    /\ UNCHANGED <<catalog, default_replication_method, input, pc, curLsn, run, booted>>
    /\ UNCHANGED <<discVars, mapVars>>

\* lines 356-366: no desired column, warn and continue
SkipNoColumns ==
    /\ InLoop
    /\ DesiredColumns(Stream) = {}
    /\ state' = Current
    /\ trace' = Append(trace, Warning(Stream))
    /\ work' = Tail(work)
    /\ last' = Last("skip_no_columns", Stream, NoState)
    /\ UNCHANGED <<catalog, default_replication_method, input, pc, curLsn, run, booted>>
    /\ UNCHANGED <<discVars, mapVars>>

\* lines 368-371: LOG_BASED on a view, warn and continue
SkipLogBasedView ==
    /\ InLoop
    /\ DesiredColumns(Stream) # {}
    /\ ReplicationMethod(Stream) = "LOG_BASED"
    /\ Stream.is_view
    /\ state' = Current
    /\ trace' = Append(trace, Warning(Stream))
    /\ work' = Tail(work)
    /\ last' = Last("skip_view", Stream, NoState)
    /\ UNCHANGED <<catalog, default_replication_method, input, pc, curLsn, run, booted>>
    /\ UNCHANGED <<discVars, mapVars>>

\* lines 374-375, 326-330, 381-382: LOG_BASED with an lsn bookmark
SyncLogBased ==
    /\ InLoop
    /\ DesiredColumns(Stream) # {}
    /\ ReplicationMethod(Stream) = "LOG_BASED"
    /\ ~Stream.is_view
    /\ Truthy(get_bookmark(Current, Stream.tap_stream_id, "lsn"))
    /\ \E pos \in Advance(curLsn) :
         LET returned == LogBasedReturns(Current, Stream.tap_stream_id, pos)
             final    == set_currently_syncing(returned, Null)
         IN  /\ curLsn' = pos
             /\ state' = final
             /\ last' = Last("log_based", Stream, returned)
             /\ trace' = trace \o
                  << FetchLsn(Stream, curLsn),
                     Call("logical_replication.add_automatic_properties", Stream),
                     SchemaMsg(Stream, <<"lsn">>),
                     Call("logical_replication.sync_table", Stream),
                     RecordMsg(Stream),
                     StateMsg(final) >>
    /\ work' = Tail(work)
    /\ UNCHANGED <<catalog, default_replication_method, input, pc, run, booted>>
    /\ UNCHANGED <<discVars, mapVars>>

\* a bootstrap that reads the position only after the scan
BootstrapLate ==
    /\ InLoop
    /\ DesiredColumns(Stream) # {}
    /\ ReplicationMethod(Stream) = "LOG_BASED"
    /\ ~Stream.is_view
    /\ ~Truthy(get_bookmark(Current, Stream.tap_stream_id, "lsn"))
    /\ \E pos \in Advance(curLsn), returned \in FullTableReturns(Current, Stream.tap_stream_id) :
         LET end_lsn   == pos
             with_xmin == write_bookmark(returned, Stream.tap_stream_id, "xmin", Null)
             with_lsn  == write_bookmark(with_xmin, Stream.tap_stream_id, "lsn", end_lsn)
             final     == set_currently_syncing(with_lsn, Null)
         IN  /\ curLsn' = pos
             /\ state' = final
             /\ last' = Last("bootstrap", Stream, returned)
             /\ trace' = trace \o
                  << SchemaMsg(Stream, <<>>),
                     Call("full_table.sync_table", Stream),
                     RecordMsg(Stream),
                     FetchLsn(Stream, end_lsn),
                     StateMsg(final) >>
    /\ work' = Tail(work)
    /\ UNCHANGED <<catalog, default_replication_method, input, pc, run, booted>>
    /\ UNCHANGED <<discVars, mapVars>>

\* lines 374-375, 331-344, 381-382: LOG_BASED without an lsn bookmark
BootstrapLogBased ==
    /\ InLoop
    /\ DesiredColumns(Stream) # {}
    /\ ReplicationMethod(Stream) = "LOG_BASED"
    /\ ~Stream.is_view
    /\ ~Truthy(get_bookmark(Current, Stream.tap_stream_id, "lsn"))
    /\ \E pos \in Advance(curLsn), returned \in FullTableReturns(Current, Stream.tap_stream_id) :
         LET end_lsn   == curLsn
             with_xmin == write_bookmark(returned, Stream.tap_stream_id, "xmin", Null)
             with_lsn  == write_bookmark(with_xmin, Stream.tap_stream_id, "lsn", end_lsn)
             final     == set_currently_syncing(with_lsn, Null)
         IN  /\ curLsn' = pos
             /\ state' = final
             /\ last' = Last("bootstrap", Stream, returned)
             /\ trace' = trace \o
                  << FetchLsn(Stream, end_lsn),
                     SchemaMsg(Stream, <<>>),
                     Call("full_table.sync_table", Stream),
                     RecordMsg(Stream),
                     StateMsg(final) >>
    /\ work' = Tail(work)
    /\ UNCHANGED <<catalog, default_replication_method, input, pc, run, booted>>
    /\ UNCHANGED <<discVars, mapVars>>

\* a full-table dispatch that leaves the checkpoint to the end of the run
SyncFullTableNoCheckpoint ==
    /\ InLoop
    /\ DesiredColumns(Stream) # {}
    /\ ReplicationMethod(Stream) = "FULL_TABLE"
    /\ \E returned \in FullTableReturns(Current, Stream.tap_stream_id) :
         /\ state' = set_currently_syncing(returned, Null)
         /\ last' = Last("full_table", Stream, returned)
         /\ trace' = trace \o
              << SchemaMsg(Stream, <<>>),
                 Call(IF Stream.is_view THEN "full_table.sync_view"
                                        ELSE "full_table.sync_table", Stream),
                 RecordMsg(Stream) >>
    /\ work' = Tail(work)
    /\ UNCHANGED <<catalog, default_replication_method, input, pc, curLsn, run, booted>>
    /\ UNCHANGED <<discVars, mapVars>>

\* lines 376-377, 316-323, 381-382: FULL_TABLE
SyncFullTable ==
    /\ InLoop
    /\ DesiredColumns(Stream) # {}
    /\ ReplicationMethod(Stream) = "FULL_TABLE"
    /\ \E returned \in FullTableReturns(Current, Stream.tap_stream_id) :
         LET final == set_currently_syncing(returned, Null)
         IN  /\ state' = final
             /\ last' = Last("full_table", Stream, returned)
             /\ trace' = trace \o
                  << SchemaMsg(Stream, <<>>),
                     Call(IF Stream.is_view THEN "full_table.sync_view"
                                            ELSE "full_table.sync_table", Stream),
                     RecordMsg(Stream),
                     StateMsg(final) >>
    /\ work' = Tail(work)
    /\ UNCHANGED <<catalog, default_replication_method, input, pc, curLsn, run, booted>>
    /\ UNCHANGED <<discVars, mapVars>>

\* an unsupported method that is logged and skipped after a checkpoint
RaiseUnsupportedSwallowed ==
    /\ InLoop
    /\ DesiredColumns(Stream) # {}
    /\ ReplicationMethod(Stream) \notin {"LOG_BASED", "FULL_TABLE"}
    /\ state' = set_currently_syncing(Current, Null)
    /\ trace' = Append(trace, StateMsg(set_currently_syncing(Current, Null)))
    /\ work' = Tail(work)
    /\ last' = Last("raise", Stream, NoState)
    /\ UNCHANGED <<catalog, default_replication_method, input, pc, curLsn, run, booted>>
    /\ UNCHANGED <<discVars, mapVars>>

\* lines 355, 378-379: any other method raises out of do_sync, the stream already
\* taken from the iterator
RaiseUnsupported ==
    /\ InLoop
    /\ DesiredColumns(Stream) # {}
    /\ ReplicationMethod(Stream) \notin {"LOG_BASED", "FULL_TABLE"}
    /\ state' = Current
    /\ pc' = "aborted"
    /\ work' = Tail(work)
    /\ last' = Last("raise", Stream, NoState)
    /\ UNCHANGED <<catalog, default_replication_method, input, trace, curLsn, run, booted>>
    /\ UNCHANGED <<discVars, mapVars>>

\* line 355: the iterator is exhausted, do_sync returns
LoopExit ==
    /\ pc = "loop"
    /\ work = <<>>
    /\ pc' = "done"
    /\ UNCHANGED <<catalog, default_replication_method, input, state, work, trace, last,
                   curLsn, run, booted>>
    /\ UNCHANGED <<discVars, mapVars>>

-----------------------------------------------------------------------------
(* The next invocation: main_impl hands do_sync the last state the target kept *)

StateIndexes(tr) == {i \in 1..Len(tr) : tr[i].type = "STATE"}

LastEmitted ==
    IF StateIndexes(trace) = {} THEN input
    ELSE trace[CHOOSE i \in StateIndexes(trace) : \A j \in StateIndexes(trace) : j <= i].value

\* streams this run put through the initial full-table pass of logical replication
BootstrappedIn(tr) ==
    {tr[i].stream : i \in {j \in 1..Len(tr) : tr[j].type = "CALL"
                                              /\ tr[j].fn = "full_table.sync_table"
                                              /\ ReplicationMethod(catalog[StreamOf(tr[j].stream)]) = "LOG_BASED"}}

NextRun ==
    /\ pc \in {"done", "aborted"}
    /\ run < MaxRuns
    /\ run' = run + 1
    /\ input' = LastEmitted
    /\ state' = LastEmitted
    /\ booted' = booted \cup BootstrappedIn(trace)
    /\ pc' = "start"
    /\ work' = <<>>
    /\ trace' = <<>>
    /\ last' = NoLast
    /\ UNCHANGED <<catalog, default_replication_method, curLsn>>
    /\ UNCHANGED <<discVars, mapVars>>

InitEntries == {EmptyEntry, [lsn |-> 1, xmin |-> 1]}

InputStates ==
    {[currently_syncing |-> m, bookmarks |-> [id \in StreamIds |-> e]] :
        m \in {Null, StaleId} \cup StreamIds, e \in InitEntries}

IdleDiscovery ==
    /\ cluster = {}
    /\ all_dbs = {}
    /\ all_streams = <<>>
    /\ dpc = "idle"

IdleMapper ==
    /\ c = <<>>
    /\ result = <<>>
    /\ mpc = "idle"

IdleSync ==
    /\ catalog = <<>>
    /\ default_replication_method = NoMethod
    /\ input = NoState
    /\ state = NoState
    /\ work = <<>>
    /\ pc = "idle"
    /\ trace = <<>>
    /\ last = NoLast
    /\ curLsn = 0
    /\ run = 0
    /\ booted = {}

Init ==
    /\ \E kinds \in [StreamIds -> StreamKinds] :
         catalog = [i \in 1..MaxStreams |-> MkStream(Descending[i], kinds[Descending[i]])]
    /\ default_replication_method \in {"LOG_BASED", "FULL_TABLE"}
    /\ input \in InputStates
    /\ state = input
    /\ work = <<>>
    /\ pc = "start"
    /\ trace = <<>>
    /\ last = NoLast
    /\ curLsn \in {0, 1}
    /\ run = 1
    /\ booted = {}
    /\ IdleDiscovery
    /\ IdleMapper

Next ==
    \/ DoSyncStart
    \/ SkipNoColumns
    \/ SkipLogBasedView
    \/ SyncLogBased
    \/ BootstrapLogBased
    \/ SyncFullTable
    \/ RaiseUnsupported
    \/ LoopExit

Spec == Init /\ [][Next]_vars

\* do_sync invoked again and again, each time on the last state it emitted
NextRuns ==
    \/ Next
    \/ NextRun

SpecRuns == Init /\ [][NextRuns]_vars

-----------------------------------------------------------------------------
(* do_discovery *)

DbNames     == {"a", "a-b"}
SchemaNames == {"b", "c", "b-c"}
TableNames  == {"c", "d", "c-d"}

Clusters ==
    {S \in SUBSET (DbNames \X SchemaNames \X TableNames) : Cardinality(S) <= MaxTables}

\* tap_stream_id of the CatalogEntry, lines 240-245
TapStreamId(database_name, schema_name, table_name) ==
    database_name \o "-" \o schema_name \o "-" \o table_name

CatalogEntry(database_name, schema_name, table_name) ==
    [table |-> table_name, stream |-> table_name,
     database_name |-> database_name, schema_name |-> schema_name,
     tap_stream_id |-> TapStreamId(database_name, schema_name, table_name)]

\* produce_table_info: the (schema, table) pairs of one database
TableInfo(dbname) == {<<t[2], t[3]>> : t \in {x \in cluster : x[1] = dbname}}

\* the orders in which the tables of table_info may be iterated
Orders(S) ==
    {f \in [1..Cardinality(S) -> S] : \A i, j \in 1..Cardinality(S) : f[i] = f[j] => i = j}

\* discover_columns: one entry per table of table_info
discover_columns(dbname, order) ==
    [i \in 1..Len(order) |-> CatalogEntry(dbname, order[i][1], order[i][2])]

\* lines 260-272: list the databases of the cluster
ListDatabases ==
    /\ dpc = "start"
    /\ all_dbs' = DbNames
    /\ dpc' = "dbs"
    /\ UNCHANGED <<cluster, all_streams>>
    /\ UNCHANGED <<syncVars, mapVars>>

\* lines 274-280: discover one database and append its streams
DiscoverDb ==
    /\ dpc = "dbs"
    /\ \E dbname \in all_dbs :
         /\ \E order \in Orders(TableInfo(dbname)) :
              all_streams' = all_streams \o discover_columns(dbname, order)
         /\ all_dbs' = all_dbs \ {dbname}
    /\ UNCHANGED <<cluster, dpc>>
    /\ UNCHANGED <<syncVars, mapVars>>

\* lines 282-284: build and dump the cluster catalog
DumpCatalog ==
    /\ dpc = "dbs"
    /\ all_dbs = {}
    /\ dpc' = "dumped"
    /\ UNCHANGED <<cluster, all_dbs, all_streams>>
    /\ UNCHANGED <<syncVars, mapVars>>

InitDiscovery ==
    /\ cluster \in Clusters
    /\ all_dbs = {}
    /\ all_streams = <<>>
    /\ dpc = "start"
    /\ IdleSync
    /\ IdleMapper

NextDiscovery ==
    \/ ListDatabases
    \/ DiscoverDb
    \/ DumpCatalog

SpecDiscovery == InitDiscovery /\ [][NextDiscovery]_vars

-----------------------------------------------------------------------------
(* schema_for_column *)

INTEGER_TYPES == {"integer", "smallint", "bigint"}
FLOAT_TYPES   == {"real", "double precision"}
JSON_TYPES    == {"json", "jsonb"}
MAX_SCALE     == 38
MAX_PRECISION == 100

SqlDataTypes ==
    INTEGER_TYPES \cup FLOAT_TYPES \cup JSON_TYPES \cup
    {"bit", "boolean", "uuid", "hstore", "numeric",
     "time without time zone", "time with time zone",
     "date", "timestamp without time zone", "timestamp with time zone",
     "text", "character varying", "character",
     "INTEGER", "Numeric", "money", "bytea"}

Lengths    == {Null, 1, 8}
Precisions == {Null, 0, 16, 32, 101}
Scales     == {Null, 0, 2, 40}

Columns ==
    [column_name : {"col"}, is_primary_key : BOOLEAN, sql_data_type : SqlDataTypes,
     character_maximum_length : Lengths, numeric_precision : Precisions,
     numeric_scale : Scales]

\* str.lower on the type names above
Lower(str) ==
    CASE str = "INTEGER" -> "integer"
      [] str = "Numeric" -> "numeric"
      [] OTHER -> str

\* sign * base ** exp + plus, kept symbolic: 10 ** 100 does not fit a machine integer
Power(sign, base, exp, plus) == [sign |-> sign, base |-> base, exp |-> exp, plus |-> plus]

NoNumber == Power(0, 0, 0, 0)

\* Schema(): every attribute unset
Schema ==
    [type |-> Null, minimum |-> NoNumber, maximum |-> NoNumber,
     exclusiveMinimum |-> FALSE, exclusiveMaximum |-> FALSE, multipleOf |-> NoNumber,
     maxLength |-> Null, format |-> "", raised |-> ""]

\* what the caller gets when the body raises
Raised(exc) == [Schema EXCEPT !.raised = exc]

\* nullable_column
nullable_column(col_type, pk) == IF pk THEN <<col_type>> ELSE <<"null", col_type>>

Typed(col_type, col) == [Schema EXCEPT !.type = nullable_column(col_type, col.is_primary_key)]

\* lines 96-115
NumericSchema(col) ==
    LET scale == IF col.numeric_scale = Null \/ col.numeric_scale > MAX_SCALE
                 THEN MAX_SCALE ELSE col.numeric_scale
        precision == IF col.numeric_precision = Null \/ col.numeric_precision > MAX_PRECISION
                     THEN MAX_PRECISION ELSE col.numeric_precision
    IN  [Typed("number", col) EXCEPT
            !.exclusiveMaximum = TRUE,
            !.maximum = Power(1, 10, precision - scale, 0),
            !.multipleOf = Power(1, 10, 0 - scale, 0),
            !.exclusiveMinimum = TRUE,
            !.minimum = Power(-1, 10, precision - scale, 0)]

\* lines 70-74: None - 1 is a TypeError
IntegerSchema(col) ==
    IF col.numeric_precision = Null
    THEN Raised("TypeError")
    ELSE [Typed("integer", col) EXCEPT
            !.minimum = Power(-1, 2, col.numeric_precision - 1, 0),
            !.maximum = Power(1, 2, col.numeric_precision - 1, -1)]

\* schema_for_column
schema_for_column(col) ==
    LET data_type == Lower(col.sql_data_type)
    IN  IF data_type \in INTEGER_TYPES THEN IntegerSchema(col)
        ELSE IF data_type = "bit" /\ col.character_maximum_length = 1 THEN Typed("boolean", col)
        ELSE IF data_type = "boolean" THEN Typed("boolean", col)
        ELSE IF data_type = "uuid" THEN Typed("string", col)
        ELSE IF data_type = "hstore" THEN Typed("string", col)
        ELSE IF data_type \in JSON_TYPES THEN Typed("string", col)
        ELSE IF data_type = "numeric" THEN NumericSchema(col)
        ELSE IF data_type \in {"time without time zone", "time with time zone"}
             THEN Typed("string", col)
        ELSE IF data_type \in {"date", "timestamp without time zone", "timestamp with time zone"}
             THEN [Typed("string", col) EXCEPT !.format = "date-time"]
        ELSE IF data_type \in FLOAT_TYPES THEN Typed("number", col)
        ELSE IF data_type = "text" THEN Typed("string", col)
        ELSE IF data_type = "character varying"
             THEN [Typed("string", col) EXCEPT !.maxLength = col.character_maximum_length]
        ELSE IF data_type = "character"
             THEN [Typed("string", col) EXCEPT !.maxLength = col.character_maximum_length]
        ELSE Schema

\* discover_columns, line 226: the mapper applied to one column
MapColumn ==
    /\ mpc = "input"
    /\ result' = schema_for_column(c)
    /\ mpc' = "mapped"
    /\ UNCHANGED c
    /\ UNCHANGED <<syncVars, discVars>>

InitMapper ==
    /\ c \in Columns
    /\ result = Schema
    /\ mpc = "input"
    /\ IdleSync
    /\ IdleDiscovery

NextMapper == MapColumn

SpecMapper == InitMapper /\ [][NextMapper]_vars

-----------------------------------------------------------------------------
(* Vocabulary of the properties *)

Marker == input.currently_syncing

StreamById(id) == catalog[StreamOf(id)]

SelectedIds == {catalog[i].tap_stream_id : i \in {j \in 1..Len(catalog) : catalog[j].selected}}

HasColumns(id) == DesiredColumns(StreamById(id)) # {}

Supported(id) == ReplicationMethod(StreamById(id)) \in {"LOG_BASED", "FULL_TABLE"}

LogBasedView(id) ==
    ReplicationMethod(StreamById(id)) = "LOG_BASED" /\ StreamById(id).is_view

\* the stream the run aborts on, when one of ids is
Aborting(id) == HasColumns(id) /\ ~Supported(id)

\* ascending sequence of the ids in S
RECURSIVE AscendingSeq(_)
AscendingSeq(S) ==
    IF S = {} THEN <<>>
    ELSE LET m == CHOOSE x \in S : \A y \in S : x <= y
         IN  <<m>> \o AscendingSeq(S \ {m})

Ids(seq) == [i \in 1..Len(seq) |-> seq[i].tap_stream_id]

RECURSIVE StreamsOf(_, _)
StreamsOf(tr, type) ==
    IF tr = <<>> THEN <<>>
    ELSE IF Head(tr).type = type
         THEN <<Head(tr).stream>> \o StreamsOf(Tail(tr), type)
         ELSE StreamsOf(Tail(tr), type)

SyncFns == {"full_table.sync_table", "full_table.sync_view", "logical_replication.sync_table"}

RECURSIVE SyncCalls(_)
SyncCalls(tr) ==
    IF tr = <<>> THEN <<>>
    ELSE IF Head(tr).type = "CALL" /\ Head(tr).fn \in SyncFns
         THEN <<Head(tr).stream>> \o SyncCalls(Tail(tr))
         ELSE SyncCalls(Tail(tr))

\* the SCHEMA and STATE messages of the trace, in order
RECURSIVE SchemaAndState(_)
SchemaAndState(tr) ==
    IF tr = <<>> THEN <<>>
    ELSE IF Head(tr).type \in {"SCHEMA", "STATE"}
         THEN <<Head(tr)>> \o SchemaAndState(Tail(tr))
         ELSE SchemaAndState(Tail(tr))

\* the selected streams at or after the marker
Suffix == AscendingSeq({id \in SelectedIds : id >= Marker})

\* ... of which those before the first one the run aborts on, with a desired column
\* and not a LOG_BASED view, are dispatched
Dispatched ==
    LET from == {id \in SelectedIds : id >= Marker}
        stop == {id \in from : Aborting(id)}
    IN  AscendingSeq({id \in from :
                        /\ \A e \in stop : id < e
                        /\ HasColumns(id)
                        /\ ~LogBasedView(id)})

Ended == pc \in {"done", "aborted"}

-----------------------------------------------------------------------------
(* C1 *)

\* C1 as stated: with the marker on a selected stream, a finished run has processed
\* (schema message, collaborator call, state message) exactly the selected streams at
\* or after the marker, each once, in ascending order.
C1_Original ==
    (pc = "done" /\ Marker \in SelectedIds) =>
        /\ StreamsOf(trace, "SCHEMA") = Suffix
        /\ SyncCalls(trace) = Suffix
        /\ Len(StreamsOf(trace, "STATE")) = Len(Suffix)

\* C1 as amended: with the marker on a selected stream, nothing is ever emitted or
\* called for a stream sorting before the marker, and once the run has ended the
\* streams processed are, in ascending order and once each, the selected streams at or
\* after the marker that come before the first stream the run aborts on, have a desired
\* column and are not LOG_BASED views.
C1_ResumeOrdering ==
    (pc # "start" /\ Marker \in SelectedIds) =>
        /\ \A i \in 1..Len(trace) : trace[i].stream = Null \/ trace[i].stream >= Marker
        /\ Ended => LET expected == Dispatched
                    IN  /\ StreamsOf(trace, "SCHEMA") = expected
                        /\ SyncCalls(trace) = expected
                        /\ Len(StreamsOf(trace, "STATE")) = Len(expected)

C1_Witness ==
    /\ pc = "done"
    /\ Marker \in SelectedIds
    /\ \E id \in SelectedIds : id < Marker /\ HasColumns(id) /\ Supported(id)
    /\ Len(StreamsOf(trace, "SCHEMA")) >= 2

-----------------------------------------------------------------------------
(* C2 *)

FetchIndexes(tr, id) ==
    {i \in 1..Len(tr) : tr[i].type = "CALL" /\ tr[i].stream = id
                        /\ tr[i].fn = "logical_replication.fetch_current_lsn"}

ScanIndexes(tr, id) ==
    {i \in 1..Len(tr) : tr[i].type = "CALL" /\ tr[i].stream = id
                        /\ tr[i].fn = "full_table.sync_table"}

\* C2: for a LOG_BASED stream without an lsn bookmark the position is read before the
\* full-table scan is called, the state emitted when the stream completes has xmin = null
\* and lsn = the position as it was before the scan, and every state message of the run
\* shows that stream's entry either untouched or with both keys written.
C2_FirstRunTransition ==
    /\ last.branch = "bootstrap" =>
         /\ FetchIndexes(trace, last.stream) # {}
         /\ ScanIndexes(trace, last.stream) # {}
         /\ \A i \in FetchIndexes(trace, last.stream), j \in ScanIndexes(trace, last.stream) :
                i < j /\ trace[i].lsn = last.pos
         /\ trace[Len(trace)].type = "STATE"
         /\ trace[Len(trace)].value.bookmarks[last.stream] = [lsn |-> last.pos, xmin |-> Null]
    /\ \A id \in BootstrappedIn(trace) : \A k \in StateIndexes(trace) :
         \/ trace[k].value.bookmarks[id] = input.bookmarks[id]
         \/ \E i \in FetchIndexes(trace, id) :
                trace[k].value.bookmarks[id] = [lsn |-> trace[i].lsn, xmin |-> Null]

C2_Witness ==
    /\ last.branch = "bootstrap"
    /\ curLsn > last.pos
    /\ Len(StreamsOf(trace, "STATE")) >= 2

-----------------------------------------------------------------------------
(* C3 *)

Untouched(id) == \A i \in 1..Len(trace) : trace[i].stream = Null \/ trace[i].stream < id

AbortedCleanly ==
    /\ pc = "aborted"
    /\ last.branch = "raise"
    /\ Len(trace) = last.tlen
    /\ Untouched(last.stream)
    /\ state.bookmarks = last.before.bookmarks
    /\ Ids(work) = Ids(last.rest)

\* C3 as stated: reaching a stream whose resolved method is neither LOG_BASED nor
\* FULL_TABLE aborts the run at once, with nothing emitted or called for it or for any
\* later stream and its bookmarks as they were.
C3_Original ==
    (last.stream # Null /\ ~Supported(last.stream)) => AbortedCleanly

\* C3 as amended: the same, for a stream that has at least one desired column.
C3_UnsupportedMethodAborts ==
    (last.stream # Null /\ ~Supported(last.stream) /\ HasColumns(last.stream))
        => AbortedCleanly

C3_Witness ==
    /\ pc = "aborted"
    /\ Len(StreamsOf(trace, "STATE")) >= 1
    /\ last.rest # <<>>

-----------------------------------------------------------------------------
(* C4 *)

\* C4: a selected stream with no desired column gets no schema, record or state message
\* and no collaborator call, its bookmark entry stays as it was, and the loop goes on
\* with the next stream of the work list.
C4_NoColumnsSkipped ==
    /\ \A i \in 1..Len(trace) :
         (trace[i].stream # Null /\ ~HasColumns(trace[i].stream)) => trace[i].type = "WARNING"
    /\ (last.stream # Null /\ ~HasColumns(last.stream)) =>
         /\ last.branch = "skip_no_columns"
         /\ Len(trace) = last.tlen + 1
         /\ trace[Len(trace)].type = "WARNING"
         /\ state.bookmarks[last.stream] = last.before.bookmarks[last.stream]
         /\ pc \in {"loop", "done"}
         /\ Ids(work) = AscendingSeq({id \in SelectedIds : id > last.stream})

C4_Witness ==
    /\ last.branch = "skip_no_columns"
    /\ last.before.bookmarks[last.stream] # EmptyEntry
    /\ last.tlen > 0
    /\ work # <<>>

-----------------------------------------------------------------------------
(* C5 *)

Dispatches == {"log_based", "bootstrap", "full_table"}

\* the messages of the latest iteration
Segment == SubSeq(trace, last.tlen + 1, Len(trace))

\* the message that closes the latest iteration
Checkpoint == trace[Len(trace)]

\* one state message closes each completed dispatch, after its schema message and its
\* collaborator call, with currently_syncing = null; schema and state messages alternate
\* over the run, and a later snapshot still carries an earlier stream's entry
CheckpointEach ==
    /\ last.branch \in Dispatches =>
         /\ LET seg == Segment
            IN  /\ StreamsOf(seg, "SCHEMA") = <<last.stream>>
                /\ SyncCalls(seg) = <<last.stream>>
                /\ Len(StreamsOf(seg, "STATE")) = 1
         /\ Checkpoint.type = "STATE"
         /\ Checkpoint.value.currently_syncing = Null
         /\ \A id \in StreamIds \ {last.stream} :
                Checkpoint.value.bookmarks[id] = last.before.bookmarks[id]
    /\ LET ss == SchemaAndState(trace)
       IN  /\ Len(ss) % 2 = 0
           /\ \A i \in 1..Len(ss) : ss[i].type = (IF i % 2 = 1 THEN "SCHEMA" ELSE "STATE")
           /\ \A i, k \in 1..Len(ss) :
                (i % 2 = 1 /\ k % 2 = 0 /\ k > i) =>
                    /\ ss[k].value.currently_syncing = Null
                    /\ ss[k].value.bookmarks[ss[i].stream] = ss[i + 1].value.bookmarks[ss[i].stream]

\* C5 as stated: every completed dispatch is followed, before the next stream's schema
\* message, by exactly one state message, written after that stream's schema message and
\* collaborator call; it has currently_syncing = null and carries the bookmarks the
\* collaborator returned.
C5_Original ==
    /\ CheckpointEach
    /\ last.branch \in Dispatches =>
         Checkpoint.value.bookmarks = last.returned.bookmarks

\* C5 as amended: the same, except that for a LOG_BASED stream without an lsn bookmark
\* the snapshot carries the bookmarks the full-table collaborator returned with that
\* stream's xmin set to null and its lsn set to the position read before the scan.
C5_PerStreamCheckpoint ==
    /\ CheckpointEach
    /\ last.branch \in {"log_based", "full_table"} =>
         Checkpoint.value.bookmarks = last.returned.bookmarks
    /\ last.branch = "bootstrap" =>
         Checkpoint.value.bookmarks =
             [last.returned.bookmarks EXCEPT
                 ![last.stream].xmin = Null, ![last.stream].lsn = last.pos]

C5_Witness ==
    /\ last.branch = "bootstrap"
    /\ last.returned.bookmarks[last.stream].xmin # Null
    /\ Len(StreamsOf(trace, "STATE")) >= 2
    /\ \E i \in 1..Len(trace) : trace[i].type = "CALL" /\ trace[i].fn = "full_table.sync_view"

-----------------------------------------------------------------------------
(* C6 *)

\* C6: every catalog entry has tap_stream_id = database-schema-table, and entries of
\* different (database, schema, table) triples have different tap_stream_ids.
C6_UniqueStreamIds ==
    /\ \A i \in 1..Len(all_streams) :
         all_streams[i].tap_stream_id =
             all_streams[i].database_name \o "-" \o all_streams[i].schema_name
                 \o "-" \o all_streams[i].table
    /\ \A i, j \in 1..Len(all_streams) :
         (<<all_streams[i].database_name, all_streams[i].schema_name, all_streams[i].table>>
            # <<all_streams[j].database_name, all_streams[j].schema_name, all_streams[j].table>>)
         => all_streams[i].tap_stream_id # all_streams[j].tap_stream_id

-----------------------------------------------------------------------------
(* C7 *)

MappedTypes ==
    INTEGER_TYPES \cup FLOAT_TYPES \cup JSON_TYPES \cup
    {"boolean", "uuid", "hstore", "numeric", "time without time zone",
     "time with time zone", "date", "timestamp without time zone",
     "timestamp with time zone", "text", "character varying", "character"}

RuleApplies(col) ==
    \/ Lower(col.sql_data_type) \in MappedTypes
    \/ Lower(col.sql_data_type) = "bit" /\ col.character_maximum_length = 1

\* C7: schema_for_column returns a schema for every column descriptor, never raises, and
\* returns the unsupported schema (type = null) exactly when no mapping rule applies.
C7_Total ==
    mpc = "mapped" =>
        /\ result.raised = ""
        /\ (result.type = Null) <=> ~RuleApplies(c)

-----------------------------------------------------------------------------
(* C8 *)

\* C8: a marker that names no selected stream drops nothing: the work list is the whole
\* sorted selected list.
C8_StaleMarkerKeepsAll ==
    (pc = "loop" /\ last = NoLast /\ Marker # Null /\ Marker \notin SelectedIds) =>
        Ids(work) = AscendingSeq(SelectedIds)

-----------------------------------------------------------------------------
(* C9 *)

\* C9: a LOG_BASED stream whose bootstrap completed in an earlier run, the present run
\* having started from a state emitted after it, is never put through the full-table
\* bootstrap again.
C9_BootstrapOnlyOnce ==
    \A id \in BootstrappedIn(trace) : id \notin booted

-----------------------------------------------------------------------------
(* C10 *)

\* C10: skipping a stream with no desired column leaves the whole state, the
\* currently_syncing pointer included, as it was before the stream was considered.
C10_SkipLeavesState ==
    last.branch = "skip_no_columns" => state = last.before

====
